---- MODULE Spec2Model ----
(***************************************************************************)
(* Model of api/sync-invoices.js: the serverless handler that fetches      *)
(* Pemo transactions awaiting export, submits one Qoyod invoice per valid  *)
(* transaction and marks the successfully submitted ones as exported.      *)
(*                                                                         *)
(* The handler is an async function.  It is split into one action per      *)
(* synchronous stretch of code between two awaits; every outbound call is  *)
(* an "issue" step followed by a "return" step whose outcome (success      *)
(* response, non-success response, thrown error) is chosen by the          *)
(* environment.  Per-invocation state is indexed by the invocation id, the *)
(* process environment is shared by all invocations.                       *)
(*                                                                         *)
(* An upstream response is taken to arrive whole: reading the body of a    *)
(* response that was received (text(), json() of well-formed JSON) does    *)
(* not fail on its own; a call that yields no usable response is a throw.  *)
(* The optional merchant text and the numeric ids parsed from the          *)
(* environment do not influence control flow and are left out of the       *)
(* payload.                                                                *)
(***************************************************************************)
EXTENDS Integers, Sequences, FiniteSets, TLC

(* ------------------------------ bounds --------------------------------- *)
\* longest transaction list the source returns
MaxTxns == 3

\* longest list of transactions the source holds when runs follow each other
MaxSourceTxns == 2

(* ---------------------------- input domains ---------------------------- *)
Invocations == {1, 2}

Methods == {"GET", "POST", "DELETE"}

\* requiredEnv, in declaration order
requiredEnv ==
  <<"PEMO_API_KEY", "QOYOD_API_KEY", "QOYOD_CONTACT_ID",
    "QOYOD_INVENTORY_ID", "QOYOD_PRODUCT_ID">>

\* the variables the README tells the operator to define
ReadmeEnv ==
  {"PEMO_API_KEY", "QOYOD_API_KEY", "QOYOD_DEBIT_ACCOUNT_ID",
   "QOYOD_CREDIT_ACCOUNT_ID"}

RequiredSet == {requiredEnv[i] : i \in 1..Len(requiredEnv)}

\* process.env is modelled by the set of keys holding a non-empty value
EnvChoices == (SUBSET RequiredSet) \cup {ReadmeEnv}

\* transaction ids the source uses
Ids == {"txn_001", "txn_002"}

GoodDate == "2024-01-15T10:30:00Z"
BadDate == "not-a-date"
NoDate == ""
NoId == ""

Number(n) == [type |-> "number", val |-> n]
Undefined == [type |-> "undefined", val |-> 0]

Amounts == {Number(4550), Undefined}

\* a fetched record: null, or an object with id, totalAmount and date
NullRecord == [null |-> TRUE, id |-> NoId, totalAmount |-> Undefined, date |-> NoDate]

AllObjects ==
  [null : {FALSE}, id : Ids \cup {NoId}, totalAmount : Amounts,
   date : {GoodDate, BadDate, NoDate}]

Defects(rec) ==
  (IF rec.id = NoId THEN 1 ELSE 0)
  + (IF rec.totalAmount.type # "number" THEN 1 ELSE 0)
  + (IF rec.date # GoodDate THEN 1 ELSE 0)

\* the records the source is taken to return: well-formed ones, ones with a
\* single defect, one without id whose date does not parse, and null
Records ==
  {rec \in AllObjects : Defects(rec) <= 1}
  \cup {rec \in AllObjects : rec.id = NoId /\ rec.date = BadDate /\ rec.totalAmount.type = "number"}
  \cup {NullRecord}

RECURSIVE SeqsUpTo(_, _)
SeqsUpTo(S, n) ==
  IF n = 0 THEN {<<>>}
  ELSE LET shorter == SeqsUpTo(S, n - 1)
       IN shorter \cup {Append(s, x) : s \in {t \in shorter : Len(t) = n - 1}, x \in S}

TxnLists == SeqsUpTo(Records, MaxTxns)

\* upstream non-success statuses and response bodies
PemoFailStatuses == {401, 500}
QoyodFailStatuses == {400}
Bodies == {"body_a", "body_b"}
\* messages of errors thrown by an outbound call
ThrowMsgs == {"fetch failed"}

(* ------------------------------- state --------------------------------- *)
VARIABLES
  env,          \* process.env: keys with a non-empty value (shared)
  method,       \* req.method of each invocation
  pc,           \* position of each invocation in the handler
  transactions, \* the fetched list
  idx,          \* position of the for-of loop (1-based index of txn)
  exportedIds,  \* the export batch
  calls,        \* history: outbound calls issued, in order
  outcomes,     \* history: how each await ended (response or thrown error)
  log,          \* history: console.error entries
  res,          \* history: responses sent to the caller, in order
  awaiting      \* the source system: its transactions awaiting export

vars ==
  <<env, method, pc, transactions, idx, exportedIds, calls, outcomes, log, res,
    awaiting>>

(* ----------------------- messages and responses ------------------------ *)
\* an error message: fixed text plus the values interpolated into it
ErrMsg(text, names, status, body) ==
  [text |-> text, names |-> names, status |-> status, body |-> body]

MethodNotAllowedMsg == ErrMsg("Method not allowed", <<>>, 0, "")

\* `Missing required environment variables: ${missing.join(', ')}`
MissingEnvMsg(names) ==
  ErrMsg("Missing required environment variables: ", names, 0, "")

\* variant: the upstream body is left out of the message
FetchFailedMsgNoBody(status, text) ==
  [text |-> "Failed to fetch Pemo transactions: ", names |-> <<>>,
   status |-> status, body |-> ""]

\* `Failed to fetch Pemo transactions: ${status} ${statusText}: ${text}`
FetchFailedMsg(status, text) ==
  ErrMsg("Failed to fetch Pemo transactions: ", <<>>, status, text)

\* error.message of an error thrown by an outbound call or by the runtime
ThrownMsg(m) == ErrMsg(m, <<>>, 0, "")

\* RangeError raised by Date.prototype.toISOString on an invalid date
InvalidTimeMsg == ThrownMsg("Invalid time value")

Response(status, body) == [status |-> status, body |-> body]

ErrorBody(msg) == [error |-> msg]
MessageBody == [message |-> "No transactions to export"]
SummaryBody(ids) == [exportedCount |-> Len(ids), exportedTransactionIds |-> ids]

(* --------------------------- pure helpers ------------------------------ *)
\* variant: only the first absent key is reported
missingFirstOnly(e) ==
  LET all == SelectSeq(requiredEnv, LAMBDA key : key \notin e)
  IN IF Len(all) = 0 THEN all ELSE <<all[1]>>

\* requiredEnv.filter((key) => !process.env[key])
missing(e) == SelectSeq(requiredEnv, LAMBDA key : key \notin e)

\* variant: the date is not checked
SkipsRecordNoDateCheck(txn) ==
  \/ txn.null
  \/ txn.totalAmount.type # "number"
  \/ txn.id = NoId

\* the condition of the `continue` at the head of the loop body
SkipsRecord(txn) ==
  \/ txn.null
  \/ txn.totalAmount.type # "number"
  \/ txn.date = NoDate
  \/ txn.id = NoId

\* new Date(d) yields a valid time value
DateParses(d) == d = GoodDate

\* new Date(txn.date).toISOString().split('T')[0]
issueDate(d) == IF d = GoodDate THEN "2024-01-15" ELSE "Invalid Date"

\* txn.totalAmount / 100, as whole units plus hundredths
\* variant: the minor-unit amount is passed on as it is
amountNoConversion(n) == [whole |-> n, hundredths |-> 0]

amount(n) == [whole |-> n \div 100, hundredths |-> n % 100]

invoicePayload(txn) ==
  [reference |-> txn.id,
   issue_date |-> issueDate(txn.date),
   due_date |-> issueDate(txn.date),
   status |-> "Approved",
   line_items |-> <<[quantity |-> 1, unit_price |-> amount(txn.totalAmount.val)]>>]

\* outbound calls; pos tags a submission with the list position of its record
FetchCall == [kind |-> "fetch", httpMethod |-> "GET", pos |-> 0, body |-> <<>>]
SubmitCall(pos, txn) ==
  [kind |-> "submit", httpMethod |-> "POST", pos |-> pos,
   body |-> <<invoicePayload(txn)>>]
MarkCall(ids) ==
  [kind |-> "mark", httpMethod |-> "PATCH", pos |-> 0,
   body |-> <<[operation |-> "markAsExported", transactionIds |-> ids]>>]

\* how an awaited step ended: call is "fetch", "submit", "mark" or "date" (the
\* date conversion), result is "ok", "notOk" or "throw"
Outcome(call, result, pos, status, body) ==
  [call |-> call, result |-> result, pos |-> pos, status |-> status, body |-> body]

\* variant: POST is let through as well
MethodAllowedOrPost(m) == m \in {"GET", "POST"}

\* req.method !== 'GET' is false
MethodAllowed(m) == m = "GET"

\* variant: the early return on an empty list is never taken
NoTransactionsNever(txns) == FALSE

\* transactions.length === 0
NoTransactions(txns) == Len(txns) = 0

\* variant: the mark request is issued whatever the batch holds
ShouldMarkAlways(ids) == TRUE

\* exportedIds.length > 0
ShouldMark(ids) == Len(ids) > 0

\* console.error entries
SubmitFailedLog(id, status, text) ==
  [text |-> "Failed to create Qoyod invoice for transaction ", id |-> id,
   status |-> status, body |-> text]
MarkFailedLog(status, text) ==
  [text |-> "Failed to mark Pemo transactions as exported: ", id |-> "",
   status |-> status, body |-> text]
CaughtLog(msg) ==
  [text |-> "Error syncing invoices:", id |-> "", status |-> 0, body |-> msg.text]

(* ------------------------------ Init ----------------------------------- *)
Init ==
  /\ env \in EnvChoices
  /\ method = [r \in Invocations |-> "GET"]
  /\ pc = [r \in Invocations |-> "idle"]
  /\ transactions = [r \in Invocations |-> <<>>]
  /\ idx = [r \in Invocations |-> 0]
  /\ exportedIds = [r \in Invocations |-> <<>>]
  /\ calls = [r \in Invocations |-> <<>>]
  /\ outcomes = [r \in Invocations |-> <<>>]
  /\ log = [r \in Invocations |-> <<>>]
  /\ res = [r \in Invocations |-> <<>>]
  /\ awaiting = <<>>

(* ------------------------ building blocks ------------------------------ *)
\* the source after a markAsExported request for ids: the marked transactions
\* no longer match exportStatus=readyToExport
StillAwaiting(list, ids) ==
  SelectSeq(list, LAMBDA t : t.id \notin {ids[k] : k \in 1..Len(ids)})

\* res.status(code).json(body); the handler then returns
Respond(r, status, body) ==
  /\ res' = [res EXCEPT ![r] = Append(@, Response(status, body))]
  /\ pc' = [pc EXCEPT ![r] = "done"]

\* variant: the caller gets a fixed text instead of error.message
CatchGeneric(r, msg) ==
  /\ log' = [log EXCEPT ![r] = Append(@, CaughtLog(msg))]
  /\ Respond(r, 500, ErrorBody(ErrMsg("Internal Server Error", <<>>, 0, "")))

\* variant: the caught error is answered without setting the status
CatchAnswers200(r, msg) ==
  /\ log' = [log EXCEPT ![r] = Append(@, CaughtLog(msg))]
  /\ Respond(r, 200, ErrorBody(msg))

\* catch (error): log it and answer 500 with error.message
Catch(r, msg) ==
  /\ log' = [log EXCEPT ![r] = Append(@, CaughtLog(msg))]
  /\ Respond(r, 500, ErrorBody(msg))

Issue(r, call) == calls' = [calls EXCEPT ![r] = Append(@, call)]

Record(r, o) == outcomes' = [outcomes EXCEPT ![r] = Append(@, o)]

\* variant: the configuration is checked before the method
InvokeConfigFirst(r) ==
  /\ pc[r] = "idle"
  /\ \E m \in Methods :
     /\ method' = [method EXCEPT ![r] = m]
     /\ IF Len(missing(env)) > 0
        THEN /\ Respond(r, 500, ErrorBody(MissingEnvMsg(missing(env))))
             /\ UNCHANGED calls
        ELSE IF ~MethodAllowed(m)
        THEN /\ Respond(r, 405, ErrorBody(MethodNotAllowedMsg))
             /\ UNCHANGED calls
        ELSE /\ Issue(r, FetchCall)
             /\ pc' = [pc EXCEPT ![r] = "awaitFetch"]
             /\ UNCHANGED res
  /\ UNCHANGED <<awaiting, env, transactions, idx, exportedIds, outcomes, log>>

(* ------------------------------ actions -------------------------------- *)
\* The handler is entered: method check, configuration check, and the
\* source fetch is issued.
Invoke(r) ==
  /\ pc[r] = "idle"
  /\ \E m \in Methods :
     /\ method' = [method EXCEPT ![r] = m]
     /\ IF ~MethodAllowed(m)
        THEN /\ Respond(r, 405, ErrorBody(MethodNotAllowedMsg))
             /\ UNCHANGED calls
        ELSE IF Len(missing(env)) > 0
        THEN /\ Respond(r, 500, ErrorBody(MissingEnvMsg(missing(env))))
             /\ UNCHANGED calls
        ELSE /\ Issue(r, FetchCall)
             /\ pc' = [pc EXCEPT ![r] = "awaitFetch"]
             /\ UNCHANGED res
  /\ UNCHANGED <<awaiting, env, transactions, idx, exportedIds, outcomes, log>>

\* await fetch(pemoEndpoint) rejects, or pemoResponse.json() rejects
FetchThrows(r) ==
  /\ pc[r] = "awaitFetch"
  /\ \E m \in ThrowMsgs :
       /\ Catch(r, ThrownMsg(m))
       /\ Record(r, Outcome("fetch", "throw", 0, 0, m))
  /\ UNCHANGED <<awaiting, env, method, transactions, idx, exportedIds, calls>>

\* the source answers with a non-success status
FetchNotOk(r) ==
  /\ pc[r] = "awaitFetch"
  /\ \E status \in PemoFailStatuses, text \in Bodies :
       /\ Catch(r, FetchFailedMsg(status, text))
       /\ Record(r, Outcome("fetch", "notOk", 0, status, text))
  /\ UNCHANGED <<awaiting, env, method, transactions, idx, exportedIds, calls>>

\* the source answers 2xx; isArray tells whether pemoData.transactions is an
\* array, list is its content
FetchOkFrom(r, lists) ==
  /\ pc[r] = "awaitFetch"
  /\ \E isArray \in BOOLEAN, list \in lists :
     LET txns == IF isArray THEN list ELSE <<>>
     IN /\ transactions' = [transactions EXCEPT ![r] = txns]
        /\ IF NoTransactions(txns)
           THEN /\ Respond(r, 200, MessageBody)
                /\ UNCHANGED <<idx, exportedIds>>
           ELSE /\ exportedIds' = [exportedIds EXCEPT ![r] = <<>>]
                /\ idx' = [idx EXCEPT ![r] = 1]
                /\ pc' = [pc EXCEPT ![r] = "loop"]
                /\ UNCHANGED res
  /\ Record(r, Outcome("fetch", "ok", 0, 200, ""))
  /\ UNCHANGED <<awaiting, env, method, calls, log>>

\* the source may answer with any list of TxnLists
FetchOk(r) == FetchOkFrom(r, TxnLists)

InLoop(r) == pc[r] = "loop" /\ idx[r] <= Len(transactions[r])
txn(r) == transactions[r][idx[r]]

\* variant: a skipped record is looked at again instead of being passed over
SkipRecordStalls(r) ==
  /\ InLoop(r)
  /\ SkipsRecord(txn(r))
  /\ UNCHANGED <<idx, awaiting, env, method, pc, transactions, exportedIds, calls, outcomes, log, res>>

\* the record lacks an essential field: continue
SkipRecord(r) ==
  /\ InLoop(r)
  /\ SkipsRecord(txn(r))
  /\ idx' = [idx EXCEPT ![r] = @ + 1]
  /\ UNCHANGED <<awaiting, env, method, pc, transactions, exportedIds, calls, outcomes, log, res>>

\* toISOString throws on a date that does not parse
DateThrows(r) ==
  /\ InLoop(r)
  /\ ~SkipsRecord(txn(r))
  /\ ~DateParses(txn(r).date)
  /\ Catch(r, InvalidTimeMsg)
  /\ Record(r, Outcome("date", "throw", idx[r], 0, InvalidTimeMsg.text))
  /\ UNCHANGED <<awaiting, env, method, transactions, idx, exportedIds, calls>>

\* variant: a record another invocation has already submitted is passed over
SubmitInvoiceDeduplicates(r) ==
  /\ InLoop(r)
  /\ ~SkipsRecord(txn(r))
  /\ DateParses(txn(r).date)
  /\ IF \E q \in Invocations \ {r} : \E c \in 1..Len(calls[q]) :
          calls[q][c].kind = "submit" /\ calls[q][c].body[1].reference = txn(r).id
     THEN /\ idx' = [idx EXCEPT ![r] = @ + 1]
          /\ UNCHANGED <<pc, calls>>
     ELSE /\ Issue(r, SubmitCall(idx[r], txn(r)))
          /\ pc' = [pc EXCEPT ![r] = "awaitSubmit"]
          /\ UNCHANGED idx
  /\ UNCHANGED <<awaiting, env, method, transactions, exportedIds, outcomes, log, res>>

\* the invoice is built and POSTed to Qoyod
SubmitInvoice(r) ==
  /\ InLoop(r)
  /\ ~SkipsRecord(txn(r))
  /\ DateParses(txn(r).date)
  /\ Issue(r, SubmitCall(idx[r], txn(r)))
  /\ pc' = [pc EXCEPT ![r] = "awaitSubmit"]
  /\ UNCHANGED <<awaiting, env, method, transactions, idx, exportedIds, outcomes, log, res>>

\* variant: the batch is one array shared by all invocations
QoyodOkSharedBatch(r) ==
  /\ pc[r] = "awaitSubmit"
  /\ exportedIds' = [q \in Invocations |-> Append(exportedIds[q], txn(r).id)]
  /\ Record(r, Outcome("submit", "ok", idx[r], 200, ""))
  /\ idx' = [idx EXCEPT ![r] = @ + 1]
  /\ pc' = [pc EXCEPT ![r] = "loop"]
  /\ UNCHANGED <<awaiting, env, method, transactions, calls, log, res>>

\* variant: the id is put at the front of the batch (unshift)
QoyodOkPrepends(r) ==
  /\ pc[r] = "awaitSubmit"
  /\ exportedIds' = [exportedIds EXCEPT ![r] = <<txn(r).id>> \o @]
  /\ Record(r, Outcome("submit", "ok", idx[r], 200, ""))
  /\ idx' = [idx EXCEPT ![r] = @ + 1]
  /\ pc' = [pc EXCEPT ![r] = "loop"]
  /\ UNCHANGED <<awaiting, env, method, transactions, calls, log, res>>

\* qoyodResponse.ok: the id joins the export batch
QoyodOk(r) ==
  /\ pc[r] = "awaitSubmit"
  /\ exportedIds' = [exportedIds EXCEPT ![r] = Append(@, txn(r).id)]
  /\ Record(r, Outcome("submit", "ok", idx[r], 200, ""))
  /\ idx' = [idx EXCEPT ![r] = @ + 1]
  /\ pc' = [pc EXCEPT ![r] = "loop"]
  /\ UNCHANGED <<awaiting, env, method, transactions, calls, log, res>>

\* variant: the id is pushed although the submission was refused
QoyodNotOkPushes(r) ==
  /\ pc[r] = "awaitSubmit"
  /\ \E status \in QoyodFailStatuses, text \in Bodies :
       /\ log' = [log EXCEPT ![r] = Append(@, SubmitFailedLog(txn(r).id, status, text))]
       /\ Record(r, Outcome("submit", "notOk", idx[r], status, text))
  /\ exportedIds' = [exportedIds EXCEPT ![r] = Append(@, txn(r).id)]
  /\ idx' = [idx EXCEPT ![r] = @ + 1]
  /\ pc' = [pc EXCEPT ![r] = "loop"]
  /\ UNCHANGED <<awaiting, env, method, transactions, calls, res>>

\* variant: a refused submission also passes over the record that follows
QoyodNotOkDropsNext(r) ==
  /\ pc[r] = "awaitSubmit"
  /\ \E status \in QoyodFailStatuses, text \in Bodies :
       /\ log' = [log EXCEPT ![r] = Append(@, SubmitFailedLog(txn(r).id, status, text))]
       /\ Record(r, Outcome("submit", "notOk", idx[r], status, text))
  /\ idx' = [idx EXCEPT ![r] = @ + 2]
  /\ pc' = [pc EXCEPT ![r] = "loop"]
  /\ UNCHANGED <<awaiting, env, method, transactions, exportedIds, calls, res>>

\* variant: a refused submission ends the run with a 500
QoyodNotOkAborts(r) ==
  /\ pc[r] = "awaitSubmit"
  /\ \E status \in QoyodFailStatuses, text \in Bodies :
       /\ log' = [log EXCEPT ![r] = Append(@, SubmitFailedLog(txn(r).id, status, text))]
       /\ Record(r, Outcome("submit", "notOk", idx[r], status, text))
       /\ Respond(r, 500, ErrorBody(ErrMsg("Failed to create Qoyod invoice", <<>>, status, text)))
  /\ UNCHANGED <<awaiting, env, method, transactions, idx, exportedIds, calls>>

\* !qoyodResponse.ok: log and continue with the next record
QoyodNotOk(r) ==
  /\ pc[r] = "awaitSubmit"
  /\ \E status \in QoyodFailStatuses, text \in Bodies :
       /\ log' = [log EXCEPT ![r] = Append(@, SubmitFailedLog(txn(r).id, status, text))]
       /\ Record(r, Outcome("submit", "notOk", idx[r], status, text))
  /\ idx' = [idx EXCEPT ![r] = @ + 1]
  /\ pc' = [pc EXCEPT ![r] = "loop"]
  /\ UNCHANGED <<awaiting, env, method, transactions, exportedIds, calls, res>>

\* variant: the batch gathered so far is marked before the error is answered
QoyodThrowsMarksBatch(r) ==
  /\ pc[r] = "awaitSubmit"
  /\ \E m \in ThrowMsgs :
       /\ Catch(r, ThrownMsg(m))
       /\ Record(r, Outcome("submit", "throw", idx[r], 0, m))
  /\ Issue(r, MarkCall(exportedIds[r]))
  /\ awaiting' = StillAwaiting(awaiting, exportedIds[r])
  /\ UNCHANGED <<env, method, transactions, idx, exportedIds>>

\* await fetch(qoyod) rejects
QoyodThrows(r) ==
  /\ pc[r] = "awaitSubmit"
  /\ \E m \in ThrowMsgs :
       /\ Catch(r, ThrownMsg(m))
       /\ Record(r, Outcome("submit", "throw", idx[r], 0, m))
  /\ UNCHANGED <<awaiting, env, method, transactions, idx, exportedIds, calls>>

LoopDone(r) == pc[r] = "loop" /\ idx[r] > Len(transactions[r])

\* Step 3 with a non-empty batch: the mark request is issued
IssueMark(r) ==
  /\ LoopDone(r)
  /\ ShouldMark(exportedIds[r])
  /\ Issue(r, MarkCall(exportedIds[r]))
  /\ pc' = [pc EXCEPT ![r] = "awaitMark"]
  /\ UNCHANGED <<awaiting, env, method, transactions, idx, exportedIds, outcomes, log, res>>

\* Step 3 with an empty batch: straight to the summary
SummaryWithoutMark(r) ==
  /\ LoopDone(r)
  /\ ~ShouldMark(exportedIds[r])
  /\ Respond(r, 200, SummaryBody(exportedIds[r]))
  /\ UNCHANGED <<awaiting, env, method, transactions, idx, exportedIds, calls, outcomes, log>>

\* markResponse.ok
MarkOk(r) ==
  /\ pc[r] = "awaitMark"
  /\ Respond(r, 200, SummaryBody(exportedIds[r]))
  /\ Record(r, Outcome("mark", "ok", 0, 200, ""))
  /\ awaiting' = StillAwaiting(awaiting, exportedIds[r])
  /\ UNCHANGED <<env, method, transactions, idx, exportedIds, calls, log>>

\* variant: a refused mark request is issued again
MarkNotOkRetries(r) ==
  /\ pc[r] = "awaitMark"
  /\ Len(SelectSeq(calls[r], LAMBDA c : c.kind = "mark")) < 2
  /\ \E status \in PemoFailStatuses, text \in Bodies :
       /\ log' = [log EXCEPT ![r] = Append(@, MarkFailedLog(status, text))]
       /\ Record(r, Outcome("mark", "notOk", 0, status, text))
  /\ Issue(r, MarkCall(exportedIds[r]))
  /\ UNCHANGED <<awaiting, env, method, pc, transactions, idx, exportedIds, res>>

\* variant: a refused mark request turns the answer into a 500
MarkNotOkFails(r) ==
  /\ pc[r] = "awaitMark"
  /\ \E status \in PemoFailStatuses, text \in Bodies :
       /\ log' = [log EXCEPT ![r] = Append(@, MarkFailedLog(status, text))]
       /\ Record(r, Outcome("mark", "notOk", 0, status, text))
       /\ Respond(r, 500, ErrorBody(ErrMsg("Failed to mark Pemo transactions as exported: ", <<>>, status, text)))
  /\ UNCHANGED <<awaiting, env, method, transactions, idx, exportedIds, calls>>

\* variant: the upstream body of the refused mark request is added to the answer
MarkNotOkLeaks(r) ==
  /\ pc[r] = "awaitMark"
  /\ \E status \in PemoFailStatuses, text \in Bodies :
       /\ log' = [log EXCEPT ![r] = Append(@, MarkFailedLog(status, text))]
       /\ Record(r, Outcome("mark", "notOk", 0, status, text))
       /\ Respond(r, 200, [exportedCount |-> Len(exportedIds[r]),
                           exportedTransactionIds |-> exportedIds[r],
                           warning |-> text])
  /\ UNCHANGED <<awaiting, env, method, transactions, idx, exportedIds, calls>>

\* !markResponse.ok: log only
MarkNotOk(r) ==
  /\ pc[r] = "awaitMark"
  /\ \E status \in PemoFailStatuses, text \in Bodies :
       /\ log' = [log EXCEPT ![r] = Append(@, MarkFailedLog(status, text))]
       /\ Record(r, Outcome("mark", "notOk", 0, status, text))
  /\ Respond(r, 200, SummaryBody(exportedIds[r]))
  /\ UNCHANGED <<awaiting, env, method, transactions, idx, exportedIds, calls>>

\* await fetch(mark) rejects; the source may or may not have applied the
\* request before the call broke
MarkThrows(r) ==
  /\ pc[r] = "awaitMark"
  /\ \E m \in ThrowMsgs :
       /\ Catch(r, ThrownMsg(m))
       /\ Record(r, Outcome("mark", "throw", 0, 0, m))
  /\ \E applied \in BOOLEAN :
       awaiting' = IF applied THEN StillAwaiting(awaiting, exportedIds[r]) ELSE awaiting
  /\ UNCHANGED <<env, method, transactions, idx, exportedIds, calls>>

(* --------------------------- specification ----------------------------- *)
\* every step one invocation can take
Step(r) ==
  \/ Invoke(r)
  \/ FetchThrows(r)
  \/ FetchNotOk(r)
  \/ FetchOk(r)
  \/ SkipRecord(r)
  \/ DateThrows(r)
  \/ SubmitInvoice(r)
  \/ QoyodOk(r)
  \/ QoyodNotOk(r)
  \/ QoyodThrows(r)
  \/ IssueMark(r)
  \/ SummaryWithoutMark(r)
  \/ MarkOk(r)
  \/ MarkNotOk(r)
  \/ MarkThrows(r)

\* a single invocation of the handler
Next == Step(1)

Spec == Init /\ [][Next]_vars

(* ------------------- successive runs against one source --------------- *)
\* what the source may hold: records whose ids, where present, are unique
Catalogues ==
  {l \in SeqsUpTo(Records, MaxSourceTxns) :
     \A i, j \in 1..Len(l) : (i # j /\ l[i].id # NoId) => l[i].id # l[j].id}

InitRuns ==
  /\ env = RequiredSet
  /\ method = [r \in Invocations |-> "GET"]
  /\ pc = [r \in Invocations |-> "idle"]
  /\ transactions = [r \in Invocations |-> <<>>]
  /\ idx = [r \in Invocations |-> 0]
  /\ exportedIds = [r \in Invocations |-> <<>>]
  /\ calls = [r \in Invocations |-> <<>>]
  /\ outcomes = [r \in Invocations |-> <<>>]
  /\ log = [r \in Invocations |-> <<>>]
  /\ res = [r \in Invocations |-> <<>>]
  /\ awaiting \in Catalogues

\* the source answers the fetch with the transactions awaiting export
FetchAwaiting(r) == FetchOkFrom(r, {awaiting})

RunStep(r) ==
  \/ Invoke(r)
  \/ FetchThrows(r)
  \/ FetchNotOk(r)
  \/ FetchAwaiting(r)
  \/ SkipRecord(r)
  \/ DateThrows(r)
  \/ SubmitInvoice(r)
  \/ QoyodOk(r)
  \/ QoyodNotOk(r)
  \/ QoyodThrows(r)
  \/ IssueMark(r)
  \/ SummaryWithoutMark(r)
  \/ MarkOk(r)
  \/ MarkNotOk(r)
  \/ MarkThrows(r)

\* two runs that do not overlap: the second starts once the first has answered
NextRuns ==
  \/ RunStep(1)
  \/ (pc[1] = "done" /\ RunStep(2))

SpecRuns == InitRuns /\ [][NextRuns]_vars

(* ------------- two runs alike but for refused-response bodies ---------- *)
TwinLists == SeqsUpTo(Records, MaxSourceTxns)

\* an outcome with the body text of a refused submission or mark call removed
Erase(o) ==
  IF o.call \in {"submit", "mark"} /\ o.result = "notOk"
  THEN [o EXCEPT !.body = ""]
  ELSE o

\* so far the second run had the inputs of the first, except for the body
\* text of refused submission and mark responses
SameUpToBodies ==
  /\ pc[2] # "idle" => method[2] = method[1]
  /\ Len(outcomes[2]) > 0 => transactions[2] = transactions[1]
  /\ Len(outcomes[2]) <= Len(outcomes[1])
  /\ \A k \in 1..Len(outcomes[2]) : Erase(outcomes[2][k]) = Erase(outcomes[1][k])

TwinStep(r, lists) ==
  \/ Invoke(r)
  \/ FetchThrows(r)
  \/ FetchNotOk(r)
  \/ FetchOkFrom(r, lists)
  \/ SkipRecord(r)
  \/ DateThrows(r)
  \/ SubmitInvoice(r)
  \/ QoyodOk(r)
  \/ QoyodNotOk(r)
  \/ QoyodThrows(r)
  \/ IssueMark(r)
  \/ SummaryWithoutMark(r)
  \/ MarkOk(r)
  \/ MarkNotOk(r)
  \/ MarkThrows(r)

\* the first run is free; the second replays it with other body texts
NextTwin ==
  \/ TwinStep(1, TwinLists)
  \/ (pc[1] = "done" /\ TwinStep(2, {transactions[1]}) /\ SameUpToBodies')

SpecTwin == Init /\ [][NextTwin]_vars

(* ----------------------- runs over a range of amounts ------------------ *)
\* totalAmount values in minor units, among them the 4550 of the example
MinorAmounts == {0, 1, 99, 100, 4550, 8500, 12000, 0 - 250}

PricedRecords ==
  {[null |-> FALSE, id |-> "txn_001", totalAmount |-> Number(n), date |-> GoodDate] :
     n \in MinorAmounts}

AmountLists == SeqsUpTo(Records \cup PricedRecords, MaxSourceTxns)

NextAmounts == TwinStep(1, AmountLists)

SpecAmounts == Init /\ [][NextAmounts]_vars

(* ------------------- one run whose calls all come back ----------------- *)
NextLive == TwinStep(1, TwinLists)

\* every outbound call eventually returns or throws, and the runtime keeps
\* running the handler in between: a step that can be taken is taken
SpecLive == Init /\ [][NextLive]_vars /\ WF_vars(NextLive)

(* ----------------------- two overlapping invocations ------------------- *)
\* what the source holds while two invocations overlap: txn_001 well-formed,
\* txn_002 well-formed or with a single defect
OverlapRecords ==
  {rec \in Records :
     /\ ~rec.null
     /\ rec.id # NoId
     /\ rec.id = "txn_001" => Defects(rec) = 0}

OverlapCatalogues ==
  {l \in SeqsUpTo(OverlapRecords, MaxSourceTxns) :
     \A i, j \in 1..Len(l) : i # j => l[i].id # l[j].id}

InitOverlap ==
  /\ env = RequiredSet
  /\ method = [r \in Invocations |-> "GET"]
  /\ pc = [r \in Invocations |-> "idle"]
  /\ transactions = [r \in Invocations |-> <<>>]
  /\ idx = [r \in Invocations |-> 0]
  /\ exportedIds = [r \in Invocations |-> <<>>]
  /\ calls = [r \in Invocations |-> <<>>]
  /\ outcomes = [r \in Invocations |-> <<>>]
  /\ log = [r \in Invocations |-> <<>>]
  /\ res = [r \in Invocations |-> <<>>]
  /\ awaiting \in OverlapCatalogues

\* nothing orders the steps of one invocation against those of the other
NextOverlap == \E r \in Invocations : RunStep(r)

SpecOverlap == InitOverlap /\ [][NextOverlap]_vars

(* ------------------------ derived history views ------------------------ *)
CallsOfKind(r, k) == SelectSeq(calls[r], LAMBDA c : c.kind = k)

OutcomesOf(r, call, result) ==
  SelectSeq(outcomes[r], LAMBDA o : o.call = call /\ o.result = result)

\* list positions whose submission returned a success status, in time order
OkPositions(r) ==
  LET ok == OutcomesOf(r, "submit", "ok")
  IN [k \in 1..Len(ok) |-> ok[k].pos]

\* the ids at those positions
OkIds(r) == [k \in 1..Len(OkPositions(r)) |-> transactions[r][OkPositions(r)[k]].id]

SeqRange(q) == {q[k] : k \in 1..Len(q)}

\* the source fetch of invocation r ended with the given result
FetchEnded(r, result) ==
  /\ Len(outcomes[r]) > 0
  /\ outcomes[r][1].call = "fetch"
  /\ outcomes[r][1].result = result

\* the record lacks a numeric amount, a date or an id
LacksEssential(rec) ==
  \/ rec.null
  \/ rec.totalAmount.type # "number"
  \/ rec.date = NoDate
  \/ rec.id = NoId

(* ------------------------------ claims --------------------------------- *)

\* C1: an invocation whose method is not GET is answered 405 with
\* {error: 'Method not allowed'} and issues no outbound call.
C1_NonGetRejected ==
  \A r \in Invocations :
    (pc[r] # "idle" /\ method[r] # "GET") =>
      /\ pc[r] = "done"
      /\ res[r] = <<[status |-> 405,
                     body |-> [error |-> [text |-> "Method not allowed",
                                          names |-> <<>>, status |-> 0, body |-> ""]]]>>
      /\ calls[r] = <<>>

C1_Witness ==
  \E r \in Invocations :
    pc[r] = "done" /\ method[r] = "POST" /\ env = RequiredSet /\ Len(res[r]) = 1

\* C2: a GET invocation with at least one required configuration value absent
\* is answered 500 with one message naming every absent value, and issues no
\* outbound call.
C2_MissingConfigNamed ==
  \A r \in Invocations :
    (pc[r] # "idle" /\ method[r] = "GET" /\ RequiredSet \ env # {}) =>
      /\ pc[r] = "done"
      /\ Len(res[r]) = 1
      /\ res[r][1].status = 500
      /\ DOMAIN res[r][1].body = {"error"}
      /\ LET msg == res[r][1].body.error
         IN /\ msg.text = "Missing required environment variables: "
            /\ SeqRange(msg.names) = RequiredSet \ env
            /\ Len(msg.names) = Cardinality(RequiredSet \ env)
      /\ calls[r] = <<>>

C2_Witness ==
  \E r \in Invocations :
    /\ pc[r] = "done" /\ method[r] = "GET"
    /\ Cardinality(RequiredSet \ env) >= 2
    /\ Len(res[r]) = 1

\* C3: when the source fetch returns a non-success response the run aborts:
\* the answer is 500 with a message embedding the upstream status and body,
\* and no submission and no mark request is issued.
C3_FetchFailureAborts ==
  \A r \in Invocations :
    FetchEnded(r, "notOk") =>
      /\ pc[r] = "done"
      /\ Len(res[r]) = 1
      /\ res[r][1].status = 500
      /\ DOMAIN res[r][1].body = {"error"}
      /\ res[r][1].body.error.text = "Failed to fetch Pemo transactions: "
      /\ res[r][1].body.error.status = outcomes[r][1].status
      /\ res[r][1].body.error.body = outcomes[r][1].body
      /\ CallsOfKind(r, "submit") = <<>>
      /\ CallsOfKind(r, "mark") = <<>>

C3_Witness ==
  \E r \in Invocations :
    /\ FetchEnded(r, "notOk")
    /\ outcomes[r][1].status = 401
    /\ outcomes[r][1].body = "body_b"
    /\ pc[r] = "done"

\* C4: when the source fetch succeeds with an empty transaction list the
\* answer is 200 with the {message} body, and no submission and no mark
\* request is issued.
C4_EmptyListNothingExported ==
  \A r \in Invocations :
    (FetchEnded(r, "ok") /\ transactions[r] = <<>>) =>
      /\ pc[r] = "done"
      /\ res[r] = <<[status |-> 200, body |-> [message |-> "No transactions to export"]]>>
      /\ CallsOfKind(r, "submit") = <<>>
      /\ CallsOfKind(r, "mark") = <<>>

C4_Witness ==
  \E r \in Invocations :
    FetchEnded(r, "ok") /\ transactions[r] = <<>> /\ pc[r] = "done"

\* C5: at every point of a run the export batch, and the id list of the mark
\* request, is exactly the sequence of ids of the transactions whose
\* submission returned a success status in this run, in source order.
C5_BatchIsSuccessSet ==
  \A r \in Invocations :
    /\ exportedIds[r] = OkIds(r)
    /\ \A k \in 1..(Len(OkPositions(r)) - 1) : OkPositions(r)[k] < OkPositions(r)[k + 1]
    /\ \A c \in 1..Len(calls[r]) :
         calls[r][c].kind = "mark" =>
           calls[r][c].body[1].transactionIds = OkIds(r)

C5_Witness ==
  \E r \in Invocations :
    /\ pc[r] = "done"
    /\ Len(CallsOfKind(r, "mark")) = 1
    /\ Len(OkIds(r)) = 2
    /\ Len(OutcomesOf(r, "submit", "notOk")) = 1
    /\ OkIds(r)[1] # OkIds(r)[2]

\* a record the loop builds an invoice from
WellFormed(rec) == ~LacksEssential(rec) /\ rec.date = GoodDate

\* positions whose submission returned a non-success response
FailedPositions(r) ==
  LET bad == OutcomesOf(r, "submit", "notOk")
  IN {bad[k].pos : k \in 1..Len(bad)}

SubmittedPositions(r) ==
  {calls[r][c].pos : c \in {d \in 1..Len(calls[r]) : calls[r][d].kind = "submit"}}

\* some awaited step of the run ended in a thrown error
SomeThrow(r) == \E k \in 1..Len(outcomes[r]) : outcomes[r][k].result = "throw"

\* the run answered once, with the normal 200 summary
NormalSummary(r) ==
  /\ Len(res[r]) = 1
  /\ res[r][1].status = 200
  /\ DOMAIN res[r][1].body = {"exportedCount", "exportedTransactionIds"}

AtLackingRecord(r) ==
  /\ pc[r] = "loop"
  /\ idx[r] \in 1..Len(transactions[r])
  /\ LacksEssential(transactions[r][idx[r]])

\* no other record of the list carries the id of record k
IdUniqueAt(r, k) ==
  \A j \in 1..Len(transactions[r]) :
    j # k => transactions[r][j].id # transactions[r][k].id

C7_Excluded ==
  \A r \in Invocations : \A k \in 1..Len(transactions[r]) :
    LacksEssential(transactions[r][k]) =>
      /\ k \notin SubmittedPositions(r)
      /\ k \notin SeqRange(OkPositions(r))
      /\ IdUniqueAt(r, k) => transactions[r][k].id \notin SeqRange(exportedIds[r])
      /\ idx[r] = k => pc[r] = "loop"

C7_MovesOn ==
  \A r \in Invocations :
    (AtLackingRecord(r) /\ <<pc[r], idx[r]>> # <<pc[r], idx[r]>>') =>
      /\ pc'[r] = "loop"
      /\ idx'[r] = idx[r] + 1
      /\ res'[r] = res[r]
      /\ calls'[r] = calls[r]
      /\ exportedIds'[r] = exportedIds[r]
      /\ log'[r] = log[r]

\* C7: a record lacking a numeric amount, a date or an id is skipped without
\* error: no submission is issued for it, its id does not enter the export
\* batch, the run is never answered or parked at it, and the step taken at
\* it moves the loop on to the next record.
C7_LackingRecordSkipped == []C7_Excluded /\ [][C7_MovesOn]_vars

C7_Witness ==
  \E r \in Invocations :
    /\ pc[r] = "done"
    /\ Len(transactions[r]) >= 2
    /\ LacksEssential(transactions[r][1])
    /\ transactions[r][1].id # NoId
    /\ transactions[r][1].date = NoDate
    /\ 2 \in SeqRange(OkPositions(r))
    /\ NormalSummary(r)

\* the for-of loop of invocation r has run to its end
LoopCompleted(r) == transactions[r] # <<>> /\ idx[r] > Len(transactions[r])

\* C8: when the export batch is empty after the loop, no mark request is
\* issued and the answer is 200 with exportedCount 0 and an empty id list.
C8_EmptyBatchNoMark ==
  \A r \in Invocations :
    (LoopCompleted(r) /\ exportedIds[r] = <<>>) =>
      /\ CallsOfKind(r, "mark") = <<>>
      /\ pc[r] \in {"loop", "done"}
      /\ pc[r] = "done" =>
           res[r] = <<[status |-> 200,
                       body |-> [exportedCount |-> 0, exportedTransactionIds |-> <<>>]]>>

C8_Witness ==
  \E r \in Invocations :
    /\ pc[r] = "done"
    /\ LoopCompleted(r)
    /\ exportedIds[r] = <<>>
    /\ FailedPositions(r) # {}
    /\ \E k \in 1..Len(transactions[r]) : LacksEssential(transactions[r][k])

\* C9: no run issues more than one mark request; the mark request is issued
\* after every submission of the run has been issued and has returned; and a
\* run whose loop completed with a non-empty batch has issued exactly one.
C9_ExactlyOneMark ==
  \A r \in Invocations :
    LET marks == CallsOfKind(r, "mark")
        submitsEnded == SelectSeq(outcomes[r], LAMBDA o : o.call = "submit")
    IN /\ Len(marks) <= 1
       /\ Len(marks) = 1 =>
            /\ calls[r][Len(calls[r])].kind = "mark"
            /\ Len(submitsEnded) = Len(CallsOfKind(r, "submit"))
            /\ LoopCompleted(r)
       /\ (LoopCompleted(r) /\ exportedIds[r] # <<>> /\ pc[r] \in {"awaitMark", "done"}) =>
            Len(marks) = 1

C9_Witness ==
  \E r \in Invocations :
    /\ pc[r] = "done"
    /\ Len(CallsOfKind(r, "mark")) = 1
    /\ Len(CallsOfKind(r, "submit")) >= 2
    /\ Len(OutcomesOf(r, "mark", "notOk")) = 1

\* the summary the run returns when the mark request succeeds
SuccessSummary(r) ==
  [status |-> 200,
   body |-> [exportedCount |-> Len(OkIds(r)), exportedTransactionIds |-> OkIds(r)]]

MarkEnded(r, results) ==
  \E k \in 1..Len(outcomes[r]) :
    outcomes[r][k].call = "mark" /\ outcomes[r][k].result \in results

\* C10 as stated: whatever way the mark request fails, the answer is the 200
\* summary the run would have returned had it succeeded.
C10_Original ==
  \A r \in Invocations :
    MarkEnded(r, {"notOk", "throw"}) =>
      pc[r] = "done" /\ res[r] = <<SuccessSummary(r)>>

\* C10 (amended): a mark request answered with a non-success response does
\* not change the outcome, the answer is the 200 summary with the same count
\* and ids; a mark request that throws is answered 500 with the error message.
C10_MarkRefusalKeepsSummary ==
  \A r \in Invocations :
    /\ MarkEnded(r, {"notOk"}) =>
         pc[r] = "done" /\ res[r] = <<SuccessSummary(r)>>
    /\ MarkEnded(r, {"throw"}) =>
         /\ pc[r] = "done"
         /\ Len(res[r]) = 1
         /\ res[r][1].status = 500
         /\ DOMAIN res[r][1].body = {"error"}

C10_Witness ==
  \E r \in Invocations :
    /\ MarkEnded(r, {"notOk"})
    /\ pc[r] = "done"
    /\ Len(OkIds(r)) = 2

\* C11: in every normal 200 summary exportedCount equals the length of
\* exportedTransactionIds and the number of submissions that succeeded, and
\* exportedTransactionIds lists the ids of exactly those transactions in
\* source order.
C11_SummaryMatchesSuccesses ==
  \A r \in Invocations :
    NormalSummary(r) =>
      /\ res[r][1].body.exportedCount = Len(res[r][1].body.exportedTransactionIds)
      /\ res[r][1].body.exportedCount = Len(OutcomesOf(r, "submit", "ok"))
      /\ res[r][1].body.exportedTransactionIds = OkIds(r)

C11_Witness ==
  \E r \in Invocations :
    /\ NormalSummary(r)
    /\ Len(transactions[r]) = 3
    /\ \A k \in 1..3 : WellFormed(transactions[r][k])
    /\ FailedPositions(r) = {2}
    /\ res[r][1].body.exportedCount = 2
    /\ res[r][1].body.exportedTransactionIds = <<"txn_001", "txn_002">>
    /\ transactions[r][1].id = "txn_001"
    /\ transactions[r][3].id = "txn_002"

\* awaited outbound calls of the run that have ended (the date conversion is
\* not a call)
EndedCalls(r) == SelectSeq(outcomes[r], LAMBDA o : o.call # "date")

\* C12: an error thrown after configuration validation (an outbound call that
\* throws, an exception while a record is processed) aborts the run: it is the
\* last thing that happens, the answer is 500 with the error's message, and
\* no outbound call is issued after it.
C12_UnexpectedErrorAborts ==
  \A r \in Invocations : \A k \in 1..Len(outcomes[r]) :
    outcomes[r][k].result = "throw" =>
      /\ k = Len(outcomes[r])
      /\ pc[r] = "done"
      /\ res[r] = <<[status |-> 500,
                     body |-> [error |-> [text |-> outcomes[r][k].body, names |-> <<>>,
                                          status |-> 0, body |-> ""]]]>>
      /\ Len(calls[r]) = Len(EndedCalls(r))

C12_Witness ==
  \E r \in Invocations :
    /\ pc[r] = "done"
    /\ Len(OutcomesOf(r, "date", "throw")) = 1
    /\ Len(OutcomesOf(r, "submit", "notOk")) = 1
    /\ Len(transactions[r]) = 3
    /\ idx[r] = 2

\* the run was answered with the missing-configuration error
MissingConfigAnswer(r) ==
  \E k \in 1..Len(res[r]) :
    /\ DOMAIN res[r][k].body = {"error"}
    /\ res[r][k].body.error.text = "Missing required environment variables: "

\* C13: a GET invocation whose environment defines the four variables the
\* README asks for passes configuration validation and issues the source
\* fetch; it is not answered with the missing-configuration error.
C13_ReadmeEnvPassesValidation ==
  \A r \in Invocations :
    (pc[r] # "idle" /\ method[r] = "GET" /\ ReadmeEnv \subseteq env) =>
      /\ Len(calls[r]) >= 1
      /\ calls[r][1].kind = "fetch"
      /\ ~MissingConfigAnswer(r)

\* references of the invoices run r has posted to the target
SubmittedRefs(r) ==
  {calls[r][c].body[1].reference :
     c \in {d \in 1..Len(calls[r]) : calls[r][d].kind = "submit"}}

\* C14: with runs that do not overlap and a source that no longer returns a
\* transaction once it is marked exported, a transaction whose submission
\* succeeded in the first run is not submitted again by the second.
C14_NoResubmission ==
  SubmittedRefs(2) \cap SeqRange(OkIds(1)) = {}

\* how many submissions run r has issued for list position p
SubmissionsOf(r, p) ==
  Cardinality({c \in 1..Len(calls[r]) :
                 calls[r][c].kind = "submit" /\ calls[r][c].pos = p})

\* C15: within one invocation the fetch is the first call and has ended with
\* success before any submission is issued; every call has ended before the
\* next one is issued (at most one in flight); submissions follow the order of
\* the list; and a run that ends with the normal summary has submitted every
\* record that has amount, date and id exactly once and every other record
\* not at all.
C15_SequentialOrdered ==
  \A r \in Invocations :
    LET sub == CallsOfKind(r, "submit")
    IN /\ \A c \in 1..Len(calls[r]) : (calls[r][c].kind = "fetch") <=> (c = 1)
       /\ Len(calls[r]) > 1 => FetchEnded(r, "ok")
       /\ Len(calls[r]) - Len(EndedCalls(r)) \in {0, 1}
       /\ (Len(calls[r]) - Len(EndedCalls(r)) = 1)
            <=> pc[r] \in {"awaitFetch", "awaitSubmit", "awaitMark"}
       /\ \A i, j \in 1..Len(sub) : i < j => sub[i].pos < sub[j].pos
       /\ NormalSummary(r) =>
            \A p \in 1..Len(transactions[r]) :
              SubmissionsOf(r, p) = IF LacksEssential(transactions[r][p]) THEN 0 ELSE 1

C15_Witness ==
  /\ NormalSummary(1)
  /\ Len(transactions[1]) = 3
  /\ LacksEssential(transactions[1][2])
  /\ SubmittedPositions(1) = {1, 3}
  /\ FailedPositions(1) = {1}
  /\ OkPositions(1) = <<3>>

\* C16: an invocation answers at most once, when it ends, and the answer has
\* one of three shapes: {error} with status 405 or 500; {message} with status
\* 200, only when the fetched list was empty; {exportedCount,
\* exportedTransactionIds} with status 200.  Status 200 is given only when
\* the method was GET, no required key was missing and the fetch succeeded.
C16_ResponseShapes ==
  \A r \in Invocations :
    /\ Len(res[r]) = IF pc[r] = "done" THEN 1 ELSE 0
    /\ \A k \in 1..Len(res[r]) :
         LET a == res[r][k]
         IN /\ \/ DOMAIN a.body = {"error"} /\ a.status \in {405, 500}
               \/ /\ DOMAIN a.body = {"message"}
                  /\ a.status = 200
                  /\ transactions[r] = <<>>
                  /\ calls[r] = <<FetchCall>>
               \/ /\ DOMAIN a.body = {"exportedCount", "exportedTransactionIds"}
                  /\ a.status = 200
            /\ a.status = 200 =>
                 /\ method[r] = "GET"
                 /\ missing(env) = <<>>
                 /\ FetchEnded(r, "ok")

\* all three shapes are what the code can answer: here the normal summary
\* after a refused mark call and a refused submission
C16_Witness ==
  /\ NormalSummary(1)
  /\ method[1] = "GET"
  /\ FetchEnded(1, "ok")
  /\ MarkEnded(1, {"notOk"})
  /\ FailedPositions(1) # {}

\* the body texts of the refused submission and mark responses of run r
RefusedBodies(r) ==
  {outcomes[r][k].body :
     k \in {j \in 1..Len(outcomes[r]) :
              outcomes[r][j].call \in {"submit", "mark"} /\ outcomes[r][j].result = "notOk"}}

LoggedBodies(r) == {log[r][k].body : k \in 1..Len(log[r])}

\* C17: two finished runs with the same method, configuration, fetched list
\* and call results, differing at most in the body text of refused submission
\* and mark responses, answer the caller with the same status and body; each
\* such body text is written to the log of its run.
C17_RefusedBodiesNotReturned ==
  /\ (pc[1] = "done" /\ pc[2] = "done") => res[1] = res[2]
  /\ \A r \in Invocations : RefusedBodies(r) \subseteq LoggedBodies(r)

C17_Witness ==
  /\ pc[1] = "done" /\ pc[2] = "done"
  /\ RefusedBodies(1) = {"body_a"}
  /\ RefusedBodies(2) = {"body_b"}
  /\ MarkEnded(1, {"notOk"})
  /\ FailedPositions(1) # {}
  /\ res[1] = res[2]

\* the unit prices run r has sent for records with the given minor amount
PricesSentFor(r, n) ==
  {calls[r][c].body[1].line_items[1].unit_price :
     c \in {d \in 1..Len(calls[r]) :
              /\ calls[r][d].kind = "submit"
              /\ transactions[r][calls[r][d].pos].totalAmount.val = n}}

\* C18: every submitted payload carries the id of its record as reference and
\* exactly one line item, of quantity 1, whose unit price is the record's
\* numeric totalAmount divided by 100: price * 100 is the minor amount, with
\* the hundredths in 0..99; 4550 gives 45.50.
C18_PayloadAmount ==
  \A r \in Invocations : \A c \in 1..Len(calls[r]) :
    calls[r][c].kind = "submit" =>
      LET payload == calls[r][c].body[1]
          rec     == transactions[r][calls[r][c].pos]
          price   == payload.line_items[1].unit_price
      IN /\ Len(calls[r][c].body) = 1
         /\ payload.reference = rec.id
         /\ Len(payload.line_items) = 1
         /\ payload.line_items[1].quantity = 1
         /\ rec.totalAmount.type = "number"
         /\ price.hundredths \in 0..99
         /\ price.whole * 100 + price.hundredths = rec.totalAmount.val
         /\ rec.totalAmount.val = 4550 => price = [whole |-> 45, hundredths |-> 50]

C18_Witness ==
  /\ PricesSentFor(1, 4550) = {[whole |-> 45, hundredths |-> 50]}
  /\ PricesSentFor(1, 99) = {[whole |-> 0, hundredths |-> 99]}
  /\ Len(CallsOfKind(1, "submit")) = 2

\* C19: an invocation whose method is not GET, made while required
\* configuration keys are absent, is answered 405 {error: 'Method not
\* allowed'}; the answer is not the missing-configuration error, names no
\* key, and nothing is logged or called.
C19_MethodCheckFirst ==
  \A r \in Invocations :
    (pc[r] # "idle" /\ method[r] # "GET" /\ missing(env) # <<>>) =>
      /\ res[r] = <<Response(405, ErrorBody(MethodNotAllowedMsg))>>
      /\ ~MissingConfigAnswer(r)
      /\ res[r][1].body.error.names = <<>>
      /\ calls[r] = <<>>
      /\ log[r] = <<>>

C19_Witness ==
  /\ pc[1] = "done"
  /\ method[1] = "DELETE"
  /\ env = {}
  /\ Len(missing(env)) = 5
  /\ res[1][1].status = 405

\* the source still holds a transaction with this id as awaiting export
Unmarked(id) == \E k \in 1..Len(awaiting) : awaiting[k].id = id

\* a step of the given kinds of run r ended in a thrown error
ThrowIn(r, kinds) ==
  \E k \in 1..Len(outcomes[r]) :
    outcomes[r][k].result = "throw" /\ outcomes[r][k].call \in kinds

\* run r answered 500 with a body made of the error message alone
ErrorOnlyAnswer(r) ==
  /\ Len(res[r]) = 1
  /\ res[r][1].status = 500
  /\ DOMAIN res[r][1].body = {"error"}
  /\ res[r][1].body.error.text \in ThrowMsgs \cup {InvalidTimeMsg.text}

\* nothing has run since run r ended
LastRun(r) == r = 1 => pc[2] = "idle"

\* C20 as stated: whenever a thrown error ends a run that already had
\* successful submissions, the run has issued no mark call, answers 500
\* without the ids, and the ids remain unmarked in the source.
C20_Original ==
  \A r \in Invocations :
    (SomeThrow(r) /\ OkPositions(r) # <<>>) =>
      /\ CallsOfKind(r, "mark") = <<>>
      /\ ErrorOnlyAnswer(r)
      /\ LastRun(r) => \A id \in SeqRange(OkIds(r)) : Unmarked(id)

\* C20: when a submission call or the date conversion throws after earlier
\* submissions of the run succeeded, the run has issued no mark call, the
\* answer is 500 with the error message alone, and the submitted ids remain
\* awaiting export in the source.  When it is the mark call itself that
\* throws, one mark call has been issued and the answer is the same 500.
C20_LoopAbortLeavesUnmarked ==
  \A r \in Invocations :
    /\ (ThrowIn(r, {"submit", "date"}) /\ OkPositions(r) # <<>>) =>
         /\ CallsOfKind(r, "mark") = <<>>
         /\ ErrorOnlyAnswer(r)
         /\ LastRun(r) => \A id \in SeqRange(OkIds(r)) : Unmarked(id)
    /\ ThrowIn(r, {"mark"}) =>
         /\ OkPositions(r) # <<>>
         /\ CallsOfKind(r, "mark") = <<MarkCall(OkIds(r))>>
         /\ ErrorOnlyAnswer(r)

C20_Witness ==
  /\ pc[1] = "done" /\ pc[2] = "idle"
  /\ OkIds(1) = <<"txn_001">>
  /\ ThrowIn(1, {"submit"})
  /\ CallsOfKind(1, "mark") = <<>>
  /\ ErrorOnlyAnswer(1)
  /\ Unmarked("txn_001")

\* C21: provided each outbound call eventually returns or throws, the
\* invocation ends, whatever the method, configuration, fetched list and call
\* results; it has answered exactly once when it has ended and not at all
\* before, and nothing happens after the answer.
C21_TerminatesWithOneAnswer ==
  /\ <>(pc[1] = "done")
  /\ [](Len(res[1]) = IF pc[1] = "done" THEN 1 ELSE 0)
  /\ [][pc[1] # "done" /\ Len(res'[1]) <= 1]_vars

\* the longest kind of run: records skipped, refused and accepted, then a
\* mark call that throws
C21_Witness ==
  /\ pc[1] = "done"
  /\ Len(res[1]) = 1
  /\ Len(transactions[1]) = MaxSourceTxns
  /\ FailedPositions(1) # {}
  /\ OkPositions(1) # <<>>
  /\ MarkEnded(1, {"throw"})

\* the invocation other than r
Other(r) == CHOOSE q \in Invocations : q # r

\* the id lists of the mark calls invocation r has issued
MarkedLists(r) ==
  {calls[r][c].body[1].transactionIds :
     c \in {d \in 1..Len(calls[r]) : calls[r][d].kind = "mark"}}

\* C22: under every interleaving of two invocations, the batch of each, the
\* id list of its mark call and the ids of its summary are exactly the ids
\* whose submission that same invocation saw succeed, in order; an id only
\* the other invocation submitted with success is in none of them.
C22_BatchIsOwn ==
  \A r \in Invocations :
    /\ exportedIds[r] = OkIds(r)
    /\ MarkedLists(r) \subseteq {OkIds(r)}
    /\ NormalSummary(r) => res[r][1].body.exportedTransactionIds = OkIds(r)
    /\ \A id \in SeqRange(OkIds(Other(r))) \ SeqRange(OkIds(r)) :
         /\ id \notin SeqRange(exportedIds[r])
         /\ \A l \in MarkedLists(r) : id \notin SeqRange(l)

\* both invocations fetched both transactions, each had one accepted and the
\* other refused, and both mark calls are in flight
C22_Witness ==
  /\ pc[1] = "awaitMark" /\ pc[2] = "awaitMark"
  /\ transactions[1] = transactions[2]
  /\ Len(transactions[1]) = 2
  /\ MarkedLists(1) = {<<"txn_001">>}
  /\ MarkedLists(2) = {<<"txn_002">>}
  /\ FailedPositions(1) # {} /\ FailedPositions(2) # {}

\* list positions invocation r has gone past, or is awaiting the submission of
HandledPositions(r) ==
  {p \in 1..Len(transactions[r]) :
     p < idx[r] \/ (p = idx[r] /\ pc[r] = "awaitSubmit")}

\* the ids for which the target has accepted an invoice from invocation r
AcceptedRefs(r) == SeqRange(OkIds(r))

\* C23: whatever the other invocation has submitted, accepted or marked, an
\* invocation submits every record of its own fetched list that has amount,
\* date and id, once, when it comes to it: no step of one invocation is held
\* back or skipped on account of the other.  (That the target ends up with
\* two entries for one source transaction is the witness.)
C23_NoExclusion ==
  \A r \in Invocations : \A p \in HandledPositions(r) :
    SubmissionsOf(r, p) = IF LacksEssential(transactions[r][p]) THEN 0 ELSE 1

\* both invocations fetched txn_001 before either had marked it, the target
\* accepted it from both, and it is still awaiting export in the source
C23_Witness ==
  /\ pc[1] = "awaitMark" /\ pc[2] = "awaitMark"
  /\ "txn_001" \in AcceptedRefs(1) \cap AcceptedRefs(2)
  /\ Unmarked("txn_001")
  /\ CallsOfKind(1, "mark") # <<>> /\ CallsOfKind(2, "mark") # <<>>

====
